---- MODULE Spec2Model ----
(***************************************************************************)
(* Kosaraju's two-pass algorithm for strongly connected components, as     *)
(* implemented by kosaraju() in testkosaraju.py.                           *)
(*                                                                         *)
(* A graph is a Python dict: `keys` is its insertion (iteration) order and *)
(* `adj` maps each key to its adjacency list.  One call of kosaraju is a   *)
(* run of the state machine below: one action per loop iteration of the    *)
(* function body, the recursive helpers dfs_fill and dfs_collect being     *)
(* recursive operators that thread the closed-over mutable state.          *)
(***************************************************************************)
EXTENDS Integers, Sequences, FiniteSets, TLC

\* Vertices are the integers 0..MaxVertex.
MaxVertex == 2
\* A graph holds at most MaxEdges adjacency entries in all its lists.
MaxEdges == 2

Vertices == 0..MaxVertex

Range(s) == {s[j] : j \in DOMAIN s}

-----------------------------------------------------------------------------
(* The input graphs *)

\* Insertion orders of the dict: sequences of distinct vertices.
KeyOrders ==
  {ks \in UNION {[1..k -> Vertices] : k \in 0..(MaxVertex + 1)} :
     \A a, b \in DOMAIN ks : a # b => ks[a] # ks[b]}

\* The adjacency entries of a dict with k keys, listed key by key: sequences
\* of e pairs <<position of the key, neighbour>>, positions never decreasing.
RECURSIVE EdgeSeqsOfLen(_, _)
EdgeSeqsOfLen(k, e) ==
  IF e = 0 THEN {<<>>}
  ELSE UNION {{Append(es, <<p, v>>) :
                 p \in {q \in 1..k : e = 1 \/ es[e - 1][1] <= q}, v \in Vertices} :
              es \in EdgeSeqsOfLen(k, e - 1)}

EdgeSeqs(k) == UNION {EdgeSeqsOfLen(k, e) : e \in 0..MaxEdges}

\* The adjacency list of the key at position p.
AdjAt(es, p) ==
  LET sel == SelectSeq(es, LAMBDA e : e[1] = p)
  IN  [j \in 1..Len(sel) |-> sel[j][2]]

MkGraph(ks, es) ==
  [keys |-> ks,
   adj  |-> [v \in Range(ks) |->
               AdjAt(es, CHOOSE p \in DOMAIN ks : ks[p] = v)]]

KeySet(g) == Range(g.keys)

\* graph.get(vertex, [])
Get(g, v) == IF v \in DOMAIN g.adj THEN g.adj[v] ELSE <<>>

\* Every <<u, v>> with v in the adjacency list of key u.
Edges(g) ==
  UNION {{<<u, g.adj[u][j]>> : j \in DOMAIN g.adj[u]} : u \in KeySet(g)}

-----------------------------------------------------------------------------
(* Pass 1: finish order *)

RECURSIVE DfsFill(_, _, _), FillNeighbors(_, _, _, _)

\* Mutant of DfsFill: the vertex is pushed before its neighbours are explored.
DfsFillPreorder(g, vertex, st) ==
  LET st1 == [st EXCEPT !.visited = @ \cup {vertex},
                        !.entered = Append(@, vertex),
                        !.stack = Append(@, vertex)]
  IN  FillNeighbors(g, Get(g, vertex), 1, st1)

\* dfs_fill(vertex) on the closed-over state st = [visited, stack, entered]:
\* mark on entry, recurse into the unvisited neighbours in list order, push
\* after them.  `entered` logs every entry of a DFS since the last clear.
DfsFill(g, vertex, st) ==
  LET st1 == [st EXCEPT !.visited = @ \cup {vertex},
                        !.entered = Append(@, vertex)]
      st2 == FillNeighbors(g, Get(g, vertex), 1, st1)
  IN  [st2 EXCEPT !.stack = Append(@, vertex)]

\* The for loop of dfs_fill, from position j of the adjacency list ns.
FillNeighbors(g, ns, j, st) ==
  IF j > Len(ns) THEN st
  ELSE FillNeighbors(g, ns, j + 1,
         IF ns[j] \notin st.visited THEN DfsFill(g, ns[j], st) ELSE st)

\* One iteration of `for vertex in graph: if vertex not in visited: ...`.
FillStep(g, vertex, st) ==
  IF vertex \notin st.visited
    THEN [DfsFill(g, vertex, st) EXCEPT !.fillRoots = Append(@, vertex)]
    ELSE st

-----------------------------------------------------------------------------
(* Transpose *)

\* The adjacency entries in the order the nested for loops visit them.
RECURSIVE EdgeList(_, _)
EdgeList(g, p) ==
  IF p > Len(g.keys) THEN <<>>
  ELSE LET u == g.keys[p]
       IN  [j \in 1..Len(g.adj[u]) |-> <<u, g.adj[u][j]>>] \o EdgeList(g, p + 1)

\* transpose[neighbor].append(vertex) for each entry of es[1..n], starting
\* from {vertex: [] for vertex in graph}.
TransposeOf(g, es, n) ==
  [v \in KeySet(g) |->
     LET sel == SelectSeq(SubSeq(es, 1, n), LAMBDA e : e[2] = v)
     IN  [j \in 1..Len(sel) |-> sel[j][1]]]

\* Mutant of BuildTranspose: transpose[vertex].append(neighbor), the edges
\* are copied and not reversed.
BuildTransposeForward(g) ==
  LET es  == EdgeList(g, 1)
      bad == {j \in DOMAIN es : es[j][2] \notin KeySet(g)}
  IN  [ok |-> bad = {}, transpose |-> g.adj]

\* Lines 45-48.  transpose[neighbor] raises KeyError for a neighbour that
\* is no key: the loops stop at the first such entry.
BuildTranspose(g) ==
  LET es  == EdgeList(g, 1)
      bad == {j \in DOMAIN es : es[j][2] \notin KeySet(g)}
  IN  IF bad = {}
        THEN [ok |-> TRUE, transpose |-> TransposeOf(g, es, Len(es))]
        ELSE LET first == CHOOSE j \in bad : \A k \in bad : j <= k
             IN  [ok |-> FALSE, transpose |-> TransposeOf(g, es, first - 1)]

\* transpose.get(vertex, [])
TGet(t, v) == IF v \in DOMAIN t THEN t[v] ELSE <<>>

-----------------------------------------------------------------------------
(* Pass 2: component collection *)

RECURSIVE DfsCollect(_, _, _), CollectNeighbors(_, _, _, _)

\* Mutant of DfsCollect: the neighbours are not explored.
DfsCollectShallow(t, vertex, st) ==
  [st EXCEPT !.visited = @ \cup {vertex},
             !.entered = Append(@, vertex),
             !.component = Append(@, vertex)]

\* dfs_collect(vertex, component) on st = [visited, component, entered].
DfsCollect(t, vertex, st) ==
  LET st1 == [st EXCEPT !.visited = @ \cup {vertex},
                        !.entered = Append(@, vertex),
                        !.component = Append(@, vertex)]
  IN  CollectNeighbors(t, TGet(t, vertex), 1, st1)

CollectNeighbors(t, ns, j, st) ==
  IF j > Len(ns) THEN st
  ELSE CollectNeighbors(t, ns, j + 1,
         IF ns[j] \notin st.visited THEN DfsCollect(t, ns[j], st) ELSE st)

\* sorted(component): insertion sort, duplicates kept.
RECURSIVE Insert(_, _)
Insert(s, x) ==
  IF s = <<>> THEN <<x>>
  ELSE IF x <= Head(s) THEN <<x>> \o s
  ELSE <<Head(s)>> \o Insert(Tail(s), x)

\* Mutant of Sorted: the component is left in collection order.
Unsorted(s) == s

RECURSIVE Sorted(_)
Sorted(s) == IF s = <<>> THEN <<>> ELSE Insert(Sorted(Tail(s)), Head(s))

\* Mutant of Pop: stack.pop(0), the oldest element first.
PopFront(stk) == [vertex |-> stk[1], rest |-> Tail(stk)]

\* Mutant of Pop: stack[-1], the element is read and left on the stack.
PopPeek(stk) == [vertex |-> stk[Len(stk)], rest |-> stk]

\* stack.pop(): the last element and the rest.
Pop(stk) == [vertex |-> stk[Len(stk)], rest |-> SubSeq(stk, 1, Len(stk) - 1)]

\* Mutant of PopStep: no `if vertex not in visited`.
PopStepUnchecked(t, st) ==
  LET p == Pop(st.stack)
      c == DfsCollect(t, p.vertex,
             [visited |-> st.visited, component |-> <<>>,
              entered |-> st.entered])
  IN  [visited |-> c.visited,
       stack   |-> p.rest,
       sccs    |-> Append(st.sccs, Sorted(c.component)),
       entered |-> c.entered,
       roots   |-> Append(st.roots, p.vertex)]

\* Mutant of PopStep: sccs.insert(0, ...), the newest component first.
PopStepPrepend(t, st) ==
  LET p == Pop(st.stack)
  IN  IF p.vertex \notin st.visited
        THEN LET c == DfsCollect(t, p.vertex,
                        [visited |-> st.visited, component |-> <<>>,
                         entered |-> st.entered])
             IN  [visited |-> c.visited,
                  stack   |-> p.rest,
                  sccs    |-> <<Sorted(c.component)>> \o st.sccs,
                  entered |-> c.entered,
                  roots   |-> Append(st.roots, p.vertex)]
        ELSE [st EXCEPT !.stack = p.rest]

\* One iteration of `while stack:` (lines 64-68) on
\* st = [visited, stack, sccs, entered, roots].
PopStep(t, st) ==
  LET p == Pop(st.stack)
  IN  IF p.vertex \notin st.visited
        THEN LET c == DfsCollect(t, p.vertex,
                        [visited |-> st.visited, component |-> <<>>,
                         entered |-> st.entered])
             IN  [visited |-> c.visited,
                  stack   |-> p.rest,
                  sccs    |-> Append(st.sccs, Sorted(c.component)),
                  entered |-> c.entered,
                  roots   |-> Append(st.roots, p.vertex)]
        ELSE [st EXCEPT !.stack = p.rest]

-----------------------------------------------------------------------------
(* One call of kosaraju(graph) *)

VARIABLES
  graph,      \* the argument
  pc,         \* "start", "fill", "collect", "returned" or "raised"
  i,          \* position of the for loop of line 40 in graph.keys
  visited,    \* the set `visited`
  stack,      \* the list `stack`, bottom first
  transpose,  \* the dict `transpose`
  sccs,       \* the list `sccs`
  entered,    \* history: the vertices a DFS entered since visited was cleared
  fillRoots,  \* history: the vertices line 42 called dfs_fill on
  roots,      \* history: the vertices line 67 called dfs_collect on
  order       \* history: the stack as pass 1 left it (finish order)

vars == <<graph, pc, i, visited, stack, transpose, sccs, entered, fillRoots,
          roots, order>>

Init ==
  /\ \E ks \in KeyOrders : \E es \in EdgeSeqs(Len(ks)) : graph = MkGraph(ks, es)
  /\ pc = "start"
  /\ i = 1
  /\ visited = {}
  /\ stack = <<>>
  /\ transpose = <<>>
  /\ sccs = <<>>
  /\ entered = <<>>
  /\ fillRoots = <<>>
  /\ roots = <<>>
  /\ order = <<>>

\* The conditions under which the call is at each of its steps.
AtStart == pc = "start"
AtFillNext == pc = "fill" /\ i <= Len(graph.keys)
AtTranspose == pc = "fill" /\ i > Len(graph.keys)
AtPopNext == pc = "collect" /\ stack # <<>>
AtReturn == pc = "collect" /\ stack = <<>>

\* Lines 24-29: an empty dict returns [] at once.
Start ==
  /\ AtStart
  /\ pc' = IF graph.keys = <<>> THEN "returned" ELSE "fill"
  /\ UNCHANGED <<graph, i, visited, stack, transpose, sccs, entered,
                 fillRoots, roots, order>>

\* Lines 40-42: one iteration of the for loop over the keys.
FillNext ==
  /\ AtFillNext
  /\ LET st == FillStep(graph, graph.keys[i],
                  [visited |-> visited, stack |-> stack, entered |-> entered,
                   fillRoots |-> fillRoots])
     IN  /\ visited' = st.visited
         /\ stack' = st.stack
         /\ entered' = st.entered
         /\ fillRoots' = st.fillRoots
  /\ i' = i + 1
  /\ UNCHANGED <<graph, pc, transpose, sccs, roots, order>>

\* Lines 45-52, after the for loop of pass 1 ends: build the transpose,
\* then clear visited.  A KeyError leaves the call at line 48.
Transpose ==
  /\ AtTranspose
  /\ LET b == BuildTranspose(graph)
     IN  /\ transpose' = b.transpose
         /\ pc' = IF b.ok THEN "collect" ELSE "raised"
         /\ visited' = IF b.ok THEN {} ELSE visited
         /\ entered' = IF b.ok THEN <<>> ELSE entered
  /\ order' = stack
  /\ UNCHANGED <<graph, i, stack, sccs, fillRoots, roots>>

\* Lines 63-68: one iteration of the while loop.
PopNext ==
  /\ AtPopNext
  /\ LET st == PopStep(transpose,
                  [visited |-> visited, stack |-> stack, sccs |-> sccs,
                   entered |-> entered, roots |-> roots])
     IN  /\ visited' = st.visited
         /\ stack' = st.stack
         /\ sccs' = st.sccs
         /\ entered' = st.entered
         /\ roots' = st.roots
  /\ UNCHANGED <<graph, pc, i, transpose, fillRoots, order>>

\* Line 70, once the while loop finds the stack empty.
Return ==
  /\ AtReturn
  /\ pc' = "returned"
  /\ UNCHANGED <<graph, i, visited, stack, transpose, sccs, entered,
                 fillRoots, roots, order>>

Next == Start \/ FillNext \/ Transpose \/ PopNext \/ Return

Spec == Init /\ [][Next]_vars

-----------------------------------------------------------------------------
(* The call as a function of its argument *)

RECURSIVE FillLoop(_, _, _)
FillLoop(g, p, st) ==
  IF p > Len(g.keys) THEN st ELSE FillLoop(g, p + 1, FillStep(g, g.keys[p], st))

RECURSIVE PopLoop(_, _)
PopLoop(t, st) == IF st.stack = <<>> THEN st ELSE PopLoop(t, PopStep(t, st))

\* kosaraju(g): whether it raised, and the list it returned.
Kosaraju(g) ==
  IF g.keys = <<>> THEN [raised |-> FALSE, sccs |-> <<>>]
  ELSE LET f == FillLoop(g, 1, [visited |-> {}, stack |-> <<>>,
                                entered |-> <<>>, fillRoots |-> <<>>])
           b == BuildTranspose(g)
       IN  IF ~b.ok THEN [raised |-> TRUE, sccs |-> <<>>]
           ELSE [raised |-> FALSE,
                 sccs   |-> PopLoop(b.transpose,
                              [visited |-> {}, stack |-> f.stack,
                               sccs |-> <<>>, entered |-> <<>>,
                               roots |-> <<>>]).sccs]

-----------------------------------------------------------------------------
(* Vocabulary of the properties *)

Done == pc \in {"returned", "raised"}

\* The vertices of component number k of the result.
Comp(k) == Range(sccs[k])

\* The vertices reachable from those of S along edges of g (S included).
RECURSIVE ReachableFrom(_, _)
ReachableFrom(g, S) ==
  LET T == S \cup {e[2] : e \in {d \in Edges(g) : d[1] \in S}}
  IN  IF T = S THEN S ELSE ReachableFrom(g, T)

Reaches(g, u, v) == v \in ReachableFrom(g, {u})

\* Vertices that are an edge target and no key.
TargetOnly(g) == {e[2] : e \in Edges(g)} \ KeySet(g)

\* A list of components as a set of vertex sets.
AsSets(ss) == {Range(ss[k]) : k \in DOMAIN ss}

\* The position of vertex v in the sequence s of distinct vertices.
Pos(s, v) == CHOOSE j \in DOMAIN s : s[j] = v

\* The elements of a set of integers, ascending.
RECURSIVE Ascending(_)
Ascending(S) ==
  IF S = {} THEN <<>>
  ELSE LET m == CHOOSE x \in S : \A y \in S : x <= y
       IN  <<m>> \o Ascending(S \ {m})

\* The graph with the edge set of g whose keys and adjacency lists are in
\* ascending order, each neighbour listed once.  Two graphs have the same
\* keys and the same edge set exactly when they have the same Canonical.
Canonical(g) ==
  [keys |-> Ascending(KeySet(g)),
   adj  |-> [v \in KeySet(g) |-> Ascending(Range(g.adj[v]))]]

-----------------------------------------------------------------------------
(* Properties *)

\* C1 (partition): when the call has returned, the components together hold
\* exactly the keys of the graph and no two components share a vertex.
C1_Partition ==
  pc = "returned" =>
    /\ UNION {Comp(k) : k \in DOMAIN sccs} = KeySet(graph)
    /\ \A k, l \in DOMAIN sccs : k # l => Comp(k) \cap Comp(l) = {}

\* A returned partition of three keys into a pair and a singleton.
C1_Witness ==
  /\ pc = "returned"
  /\ Cardinality(KeySet(graph)) = 3
  /\ Len(sccs) = 2
  /\ \E k \in DOMAIN sccs : Cardinality(Comp(k)) = 2

\* C2 (mutual reachability): when the call has returned, any two vertices of
\* one component reach each other along edges of the graph.
C2_MutuallyReachable ==
  pc = "returned" =>
    \A k \in DOMAIN sccs : \A u, v \in Comp(k) :
      Reaches(graph, u, v) /\ Reaches(graph, v, u)

\* A returned component of two distinct vertices, the second of them
\* collected through a transpose edge.
C2_Witness ==
  /\ pc = "returned"
  /\ \E k \in DOMAIN sccs : \E u, v \in Comp(k) :
       u # v /\ roots[k] = u /\ u \in Range(transpose[v])

\* C3 (maximality): when the call has returned, no vertex of a component and
\* key outside it reach each other.
C3_Maximal ==
  pc = "returned" =>
    \A k \in DOMAIN sccs : \A u \in Comp(k) : \A v \in KeySet(graph) \ Comp(k) :
      ~(Reaches(graph, u, v) /\ Reaches(graph, v, u))

\* A returned result with a key outside a component that a vertex of the
\* component reaches through a third vertex, and that does not reach back.
C3_Witness ==
  /\ pc = "returned"
  /\ \E k \in DOMAIN sccs : \E u \in Comp(k) : \E v \in KeySet(graph) \ Comp(k) :
       /\ Reaches(graph, u, v)
       /\ <<u, v>> \notin Edges(graph)
       /\ ~Reaches(graph, v, u)

\* C4 (totality): no call raises; in particular the transpose construction
\* completes when an edge target is no key.
C4_Total == pc # "raised"

\* C5 (target-only vertices excluded): for a graph with a vertex that is an
\* edge target and no key, the call ends by returning components, such a
\* vertex is a root of neither pass and is in no returned component.
C5_TargetOnlyExcluded ==
  (Done /\ TargetOnly(graph) # {}) =>
    /\ pc = "returned"
    /\ \A v \in TargetOnly(graph) :
         /\ v \notin Range(fillRoots) \cup Range(roots)
         /\ \A k \in DOMAIN sccs : v \notin Comp(k)

\* C6 (order independence): the call ends as the call on the canonically
\* ordered graph with the same keys and edge set ends: both raise, or both
\* return the same set of vertex sets.  All graphs with one edge set share
\* their canonical ordering, so any two of them agree with each other.
C6_OrderIndependent ==
  Done =>
    LET r == Kosaraju(Canonical(graph))
    IN  /\ r.raised <=> pc = "raised"
        /\ pc = "returned" => AsSets(r.sccs) = AsSets(sccs)

\* A returned result that differs from the canonical ordering's as a list.
C6_Witness ==
  /\ pc = "returned"
  /\ Canonical(graph) # graph
  /\ Kosaraju(Canonical(graph)).sccs # sccs
  /\ Len(sccs) >= 2

\* C7 (ascending components): every component of the result is strictly
\* ascending, hence without duplicates.
C7_StrictlyAscending ==
  \A k \in DOMAIN sccs : \A j \in 1..(Len(sccs[k]) - 1) :
    sccs[k][j] < sccs[k][j + 1]

\* A returned result for a graph with a self-loop and a repeated adjacency
\* entry, the vertex of the self-loop in a component.
C7_Witness ==
  /\ pc = "returned"
  /\ \E u \in KeySet(graph) :
       /\ <<u, u>> \in Edges(graph)
       /\ \E k \in DOMAIN sccs : u \in Comp(k)
  /\ \E u \in KeySet(graph) : \E a, b \in DOMAIN graph.adj[u] :
       a # b /\ graph.adj[u][a] = graph.adj[u][b]

\* The work the call has left: the statements after the current loop, then
\* the iterations the current loop has left (a DFS pushes a vertex once, so
\* neither loop has more than MaxVertex + 1 iterations).
WorkLeft ==
  CASE pc = "start"   -> 3 * (MaxVertex + 2)
    [] pc = "fill"    -> 2 * (MaxVertex + 2) + (Len(graph.keys) + 1 - i)
    [] pc = "collect" -> (MaxVertex + 2) + Len(stack)
    [] OTHER          -> 0

\* C8 (termination): every step of the call lessens the work left, a natural
\* number, and a call that has not ended is at one of its steps, so every
\* call ends; no DFS of a pass enters a vertex twice; and the call returns
\* with the stack empty.
C8_Terminates ==
  /\ [][WorkLeft' < WorkLeft]_vars
  /\ [](WorkLeft \in Nat)
  /\ [](~Done => (AtStart \/ AtFillNext \/ AtTranspose \/ AtPopNext \/ AtReturn))
  /\ [](\A a, b \in DOMAIN entered : a # b => entered[a] # entered[b])
  /\ [](pc = "returned" => stack = <<>>)

\* A call that returned on a graph with a cycle through two vertices, every
\* key entered by pass 2.
C8_Witness ==
  /\ pc = "returned"
  /\ stack = <<>>
  /\ Range(entered) = KeySet(graph)
  /\ \E u, v \in KeySet(graph) :
       u # v /\ <<u, v>> \in Edges(graph) /\ <<v, u>> \in Edges(graph)

\* C9 (inter-component order): component number k of the result is the one
\* of the k-th root of pass 2, and an earlier root finished later in pass 1.
C9_RootOrder ==
  pc = "returned" =>
    /\ Len(roots) = Len(sccs)
    /\ \A k \in DOMAIN sccs : roots[k] \in Comp(k)
    /\ \A k, l \in DOMAIN roots :
         k < l => Pos(order, roots[k]) > Pos(order, roots[l])

\* Three returned components whose order is not that of their vertices.
C9_Witness ==
  /\ pc = "returned"
  /\ Len(sccs) = 3
  /\ sccs[1][1] > sccs[2][1]
  /\ roots = <<sccs[1][1], sccs[2][1], sccs[3][1]>>

\* C10 (topological order): in a returned result, an edge between two
\* components leads from the earlier component to the later one.
C10_Topological ==
  pc = "returned" =>
    \A e \in Edges(graph) : \A k, l \in DOMAIN sccs :
      (e[1] \in Comp(k) /\ e[2] \in Comp(l) /\ k # l) => k < l

\* A returned result for a chain of three components whose keys are
\* iterated against the direction of the edges.
C10_Witness ==
  /\ pc = "returned"
  /\ Len(sccs) = 3
  /\ \E u, v, w \in KeySet(graph) :
       /\ <<u, v>> \in Edges(graph) /\ <<v, w>> \in Edges(graph)
       /\ graph.keys = <<w, v, u>>
       /\ sccs = <<<<u>>, <<v>>, <<w>>>>

====
